---- MODULE Spec2Model ----
(***************************************************************************)
(* A model of aedat4to2.py: the AEDAT-4 to AEDAT-2 converter.              *)
(*                                                                         *)
(*   Spec      one call of export_aedat_2 on one recording, step by step   *)
(*             (open + header, encode, merge loop, normalize, write,       *)
(*             report).                                                    *)
(*   SpecEnc   the two address encoders (dvs_addr, encode_imu) as pure     *)
(*             functions applied to inputs drawn by Init.                  *)
(*   SpecMain  main's loop over a batch of input files.                    *)
(*                                                                         *)
(* Number representations.  TLC's integers are 32 bits wide, so            *)
(*   - a uint32 address word is the set of its 1-bits (a subset of 0..31): *)
(*     | is union, & is intersection, << adds to every bit position;       *)
(*   - an int64 timestamp t is the pair <<t \div 2^24, t % 2^24>>;         *)
(*   - an IMU float is a decimal with ImuDen units per 1.0.                *)
(* The numpy semantics modelled are those of numpy 1.x, which the script   *)
(* was written for.                                                        *)
(***************************************************************************)
EXTENDS Integers, Sequences, FiniteSets, TLC

(***************************************************************************)
(* Bounds of the model                                                     *)
(***************************************************************************)
MaxRecords == 4
MaxT == 1
ImuDen == 1000

(***************************************************************************)
(* uint32 words as bit sets                                                *)
(***************************************************************************)
RECURSIVE BitsFrom(_, _)
\* the bits of n * 2^b, for n >= 0
BitsFrom(n, b) ==
    IF n = 0 THEN {}
    ELSE (IF n % 2 = 1 THEN {b} ELSE {}) \cup BitsFrom(n \div 2, b + 1)

\* the bits of n, 0 <= n < 2^31
Bits(n) == BitsFrom(n, 0)

\* np.array(n, dtype=uint32) for an int n in -2^31 .. 2^31-1 (two's complement)
ToUint32(n) == IF n >= 0 THEN Bits(n) ELSE Bits((n + 2147483647) + 1) \cup {31}

Shl(w, k) == {b + k : b \in w} \cap (0..31)
BitOr(a, b) == a \cup b

RECURSIVE Field(_, _, _)
\* the number held by bits lo..hi of word w (hi - lo <= 30)
Field(w, lo, hi) ==
    IF hi < lo THEN 0
    ELSE (IF hi \in w THEN 2^(hi - lo) ELSE 0) + Field(w, lo, hi - 1)

(***************************************************************************)
(* int64 timestamps as <<hi, lo>> with value hi * 2^24 + lo                *)
(***************************************************************************)
LoBase == 2^24

TsLt(a, b) == a[1] < b[1] \/ (a[1] = b[1] /\ a[2] < b[2])
TsLe(a, b) == a = b \/ TsLt(a, b)
TsAdd(a, k) == <<a[1] + ((a[2] + k) \div LoBase), (a[2] + k) % LoBase>>
\* a - b on int64 (no int64 overflow for the timestamps of a recording)
TsSub(a, b) ==
    IF a[2] >= b[2] THEN <<a[1] - b[1], a[2] - b[2]>>
    ELSE <<a[1] - b[1] - 1, a[2] + LoBase - b[2]>>
TsZero == <<0, 0>>

\* all_timestamps.astype(int32) of one int64 value: the low 32 bits, signed
astype_int32(d) ==
    LET h == d[1] % 256
    IN  IF h >= 128 THEN (h - 256) * LoBase + d[2] ELSE h * LoBase + d[2]

\* the signed value of a uint32 word read as int32 (what the AEDAT-2 reader does)
Int32Of(w) ==
    IF 31 \in w THEN (Field(w, 0, 30) - 2147483647) - 1 ELSE Field(w, 0, 30)

(***************************************************************************)
(* Bit layout constants of export_aedat_2                                  *)
(***************************************************************************)
apsDvsImuTypeShift == 31
dvsType == 0
apsImuType == 1
imuTypeShift == 28
imuSampleShift == 12
imuSampleSubtype == 3
apsSubTypeShift == 10
apsAdcShift == 0
apsResetReadSubtype == 0
apsSignalReadSubtype == 1
yShiftBits == 22
xShiftBits == 12
polShiftBits == 11

accelSensitivityScaleFactorGPerLsb == 8192
\* the source's 65.5, doubled to stay in the integers
gyroSensitivityScaleFactorDegPerSecPerLsb_x2 == 131
temperatureScaleFactorDegCPerLsb == 340
temperatureOffsetDegC == 35

(***************************************************************************)
(* DVS address word                                                        *)
(***************************************************************************)
\* a plausible slip: the y coordinate is not flipped
dvs_addr_noflip(x, y, polarity, h) ==
    BitOr(BitOr(BitOr(Shl(ToUint32(y), yShiftBits),
                      Shl(ToUint32(x), xShiftBits)),
                Shl(ToUint32(polarity), polShiftBits)),
          Shl(Bits(dvsType), apsDvsImuTypeShift))

dvs_addr_of(x, y, polarity, h) ==
    BitOr(BitOr(BitOr(Shl(ToUint32((h - 1) - y), yShiftBits),
                      Shl(ToUint32(x), xShiftBits)),
                Shl(ToUint32(polarity), polShiftBits)),
          Shl(Bits(dvsType), apsDvsImuTypeShift))

(***************************************************************************)
(* encode_imu                                                              *)
(***************************************************************************)
\* float -> integer conversion truncates toward zero
TruncDiv(a, b) == IF a >= 0 THEN a \div b ELSE -((-a) \div b)

\* the float expression of encode_imu, truncated toward zero: what
\* astype(int16) is given.  m is the input in 1/ImuDen units.
imu_scaled(m, code) ==
    CASE code = 0 -> TruncDiv((-m) * accelSensitivityScaleFactorGPerLsb, ImuDen)
      [] code \in {1, 2} -> TruncDiv(m * accelSensitivityScaleFactorGPerLsb, ImuDen)
      [] code = 3 -> TruncDiv(m * temperatureScaleFactorDegCPerLsb
                                - temperatureOffsetDegC * ImuDen, ImuDen)
      [] code \in {4, 5, 6} ->
            TruncDiv(m * gyroSensitivityScaleFactorDegPerSecPerLsb_x2, 2 * ImuDen)

\* astype(int16) of a float whose truncation is v.  In range the result is v.
\* Out of range the C conversion is undefined: the builds in use give the
\* low 16 bits, the minimum int16, or the saturated value.
astype_int16(v) ==
    IF v >= -32768 /\ v <= 32767 THEN {v}
    ELSE {((v + 32768) % 65536) - 32768, -32768, IF v > 0 THEN 32767 ELSE -32768}

imu_word(q, code) ==
    BitOr(BitOr(BitOr(Shl(Bits(q % 65536), imuSampleShift),
                      Shl(Bits(code), imuTypeShift)),
                Shl(Bits(imuSampleSubtype), apsSubTypeShift)),
          Shl(Bits(apsImuType), apsDvsImuTypeShift))

\* the address words encode_imu can return for one value (code in 0..6)
encode_imu(m, code) == {imu_word(q, code) : q \in astype_int16(imu_scaled(m, code))}

(***************************************************************************)
(* Frame (APS) address words                                               *)
(***************************************************************************)
\* aps_xy_addresses.flatten()[k], k = yy*width + xx counted from 0
aps_xy_address(w, k) ==
    LET yy == k \div w
        xx == k % w
    IN  BitOr(Shl(Bits(w - xx - 1), xShiftBits), Shl(Bits(yy), yShiftBits))

reset_word(w, k) ==
    BitOr(BitOr(BitOr(Shl(Bits(1023), apsAdcShift),
                      Shl(Bits(apsResetReadSubtype), apsSubTypeShift)),
                Shl(Bits(apsImuType), apsDvsImuTypeShift)),
          aps_xy_address(w, k))

\* a plausible slip: the rows of the image are not flipped
fr_vec_noflip(img, w, h, k) ==
    LET yy == k \div w
        xx == k % w
    IN  ToUint32(1023 - img[yy + 1][xx + 1])

\* fr_vec[k]: 1023 - pixel, rows flipped, flattened row by row.
\* img[r][c] is the pixel of row r (1 = top) and column c.
fr_vec(img, w, h, k) ==
    LET yy == k \div w
        xx == k % w
    IN  ToUint32(1023 - img[h - yy][xx + 1])

signal_word(img, w, h, k) ==
    BitOr(BitOr(BitOr(aps_xy_address(w, k), Shl(fr_vec(img, w, h, k), apsAdcShift)),
                Shl(Bits(apsSignalReadSubtype), apsSubTypeShift)),
          Shl(Bits(apsImuType), apsDvsImuTypeShift))

(***************************************************************************)
(* State                                                                   *)
(***************************************************************************)
VARIABLES
    \* --- export_aedat_2: parameters and environment
    args,            \* [no_imu, no_frame]
    out,             \* the decoded recording (main's out.data)
    height,          \* the height parameter (sensor height)
    writable,        \* whether open(filename, 'wb') succeeds
    \* --- export_aedat_2: control, log, output file
    pc, exc, log, file,
    \* --- export_aedat_2: locals
    dvs_addr, dvs_timestamps, imu_addr, imu_timestamps, fr_timestamp,
    ldvs, limu, nfr, fr_len, tot_len_jaer_events, defined,
    all_timestamps, all_addr, i, id, ii, ifr,
    \* --- the encoders applied to single inputs
    enc,
    \* --- main
    m_args,          \* [overwrite, no_imu, no_frame]
    m_idx,           \* number of files of filelist the loop has taken
    m_pc, m_exc,
    m_results        \* per file taken: what happened and what is on disk

inputVars == <<args, out, height, writable>>
setupVars == <<dvs_addr, dvs_timestamps, imu_addr, imu_timestamps, fr_timestamp,
               ldvs, limu, nfr, fr_len, tot_len_jaer_events, defined>>
cursorVars == <<i, id, ii, ifr>>
exportVars == <<inputVars, pc, exc, log, file, setupVars,
                all_timestamps, all_addr, cursorVars>>
mainVars == <<m_args, m_idx, m_pc, m_exc, m_results>>
vars == <<exportVars, enc, mainVars>>

(***************************************************************************)
(* Recordings                                                              *)
(***************************************************************************)
\* the first timestamp of the recordings: microseconds since the epoch
T0 == <<95367431, LoBase - 2>>
\* timestamps T0 .. T0+MaxT, and one 2^31 microseconds later
TimeVals == {TsAdd(T0, k) : k \in 0..MaxT} \cup {<<T0[1] + 128, T0[2]>>}

\* the non-decreasing timestamp sequences of length n
SortedTs(n) ==
    {s \in [1..n -> TimeVals] : \A k \in 1..(n - 1) : TsLe(s[k], s[k + 1])}

SensorWidth == 346
SensorHeight == 260

\* pixel, polarity of the k-th DVS event
DvsPix == << [x |-> 0, y |-> 0, polarity |-> 1],
             [x |-> SensorWidth - 1, y |-> SensorHeight - 1, polarity |-> 0],
             [x |-> 17, y |-> 100, polarity |-> 1] >>
DvsEvent(k, t) ==
    LET p == DvsPix[((k - 1) % Len(DvsPix)) + 1]
    IN  [timeStamp |-> t, x |-> p.x, y |-> p.y, polarity |-> p.polarity]

\* values of the k-th IMU sample, in 1/ImuDen units (g, deg C, deg/s);
\* the second sample's accelZ (5 g) is beyond what int16 holds
ImuData == << [accelX |-> 15, accelY |-> -20, accelZ |-> ImuDen - 19,
               temperature |-> 25 * ImuDen + 500,
               gyroX |-> 1250, gyroY |-> -375, gyroZ |-> 0],
              [accelX |-> -2 * ImuDen, accelY |-> 1, accelZ |-> 5 * ImuDen,
               temperature |-> 40 * ImuDen,
               gyroX |-> -100 * ImuDen, gyroY |-> 7, gyroZ |-> 499 * ImuDen] >>
ImuSample(k, t) ==
    [timeStamp |-> t, data |-> ImuData[((k - 1) % Len(ImuData)) + 1]]

\* the value encode_imu is given for channel code c of a sample
Channel(smp, c) ==
    CASE c = 0 -> smp.data.accelX
      [] c = 1 -> smp.data.accelY
      [] c = 2 -> smp.data.accelZ
      [] c = 3 -> smp.data.temperature
      [] c = 4 -> smp.data.gyroX
      [] c = 5 -> smp.data.gyroY
      [] c = 6 -> smp.data.gyroZ

\* frame sizes <<width, height>>
FrameSize == <<3, 2>>
FrameSizes == {FrameSize}
\* the image of the k-th frame: img[row][column], uint8 pixels
FrameImage(k, sz) ==
    [r \in 1..sz[2] |-> [c \in 1..sz[1] |->
        IF k = 1 THEN 255 ELSE (k * 97 + r * 31 + c * 7) % 256]]

\* main needs at least two frames when frames are read: with fewer,
\* np.squeeze drops the frame axis and np.transpose raises
MinFrames == 2

\* the streams of n records each
DvsStreams(n) == {[k \in 1..n |-> DvsEvent(k, dt[k])] : dt \in SortedTs(n)}
ImuStreams(n) == {[k \in 1..n |-> ImuSample(k, it[k])] : it \in SortedTs(n)}
FrameStreams(n) ==
    {[timeStamp |-> ft,
      samples |-> [k \in 1..n |-> FrameImage(k, sz)],
      size |-> IF n > 0 THEN sz ELSE <<>>,
      numDiffImages |-> n] : ft \in SortedTs(n), sz \in FrameSizes}

\* the numbers <<DVS events, IMU samples, frames>> of a recording that main
\* hands to export_aedat_2 under the flags a: at most MaxRecords records
Counts(a) ==
    {c \in (0..MaxRecords) \X (0..MaxRecords) \X (0..MaxRecords) :
        /\ c[1] + c[2] + c[3] <= MaxRecords
        /\ a.no_imu => c[2] = 0
        /\ IF a.no_frame THEN c[3] = 0 ELSE c[3] >= MinFrames}

Recordings(a) ==
    UNION {{[dvs |-> d, imu6 |-> im, frame |-> fr] :
               d \in DvsStreams(c[1]), im \in ImuStreams(c[2]),
               fr \in FrameStreams(c[3])} : c \in Counts(a)}

\* main's count of IMU words (out.data.imu6.numEvents)
imu6_numEvents == IF ~args.no_imu THEN Len(out.imu6) * 7 ELSE 0

RECURSIVE SeqChoices(_)
\* the sequences that take their k-th element from the set ss[k]
SeqChoices(ss) ==
    IF Len(ss) = 0 THEN {<<>>}
    ELSE {Append(p, e) : p \in SeqChoices(SubSeq(ss, 1, Len(ss) - 1)),
                         e \in ss[Len(ss)]}

Zeros(n, z) == [k \in 1..n |-> z]
NoWord == {}

(***************************************************************************)
(* export_aedat_2                                                          *)
(***************************************************************************)
ExportInit ==
    /\ args \in [no_imu : BOOLEAN, no_frame : BOOLEAN]
    /\ out \in Recordings(args)
    /\ height = SensorHeight
    /\ writable \in BOOLEAN
    /\ pc = "open" /\ exc = "none" /\ log = <<>>
    /\ file = [exists |-> FALSE, old |-> FALSE, header |-> FALSE, data |-> <<>>]
    /\ dvs_addr = <<>> /\ dvs_timestamps = <<>>
    /\ imu_addr = <<>> /\ imu_timestamps = <<>> /\ fr_timestamp = <<>>
    /\ ldvs = 0 /\ limu = 0 /\ nfr = 0 /\ fr_len = 0
    /\ tot_len_jaer_events = 0 /\ defined = {}
    /\ all_timestamps = <<>> /\ all_addr = <<>>
    /\ i = 0 /\ id = 0 /\ ii = 0 /\ ifr = 0

\* open(filename, 'wb') and the six header lines
Open ==
    /\ pc = "open"
    /\ IF writable
       THEN /\ file' = [exists |-> TRUE, old |-> FALSE, header |-> TRUE,
                        data |-> <<>>]
            /\ pc' = "encode"
            /\ log' = log
       ELSE /\ log' = Append(log, "could not open for output")
            /\ pc' = "done"
            /\ file' = file
    /\ UNCHANGED <<enc, mainVars, inputVars, exc, setupVars, all_timestamps, all_addr,
                   cursorVars>>

\* the width of the frames, as the merge setup reads it
width == IF nfr > 0 THEN out.frame.size[1] ELSE 0

\* dvs_addr, dvs_timestamps; then either the DVS-only shortcut or the
\* IMU and frame arrays and the setup of the merge
Encode ==
    /\ pc = "encode"
    /\ dvs_addr' = [k \in 1..Len(out.dvs) |->
                      dvs_addr_of(out.dvs[k].x, out.dvs[k].y,
                                  out.dvs[k].polarity, height)]
    /\ dvs_timestamps' = [k \in 1..Len(out.dvs) |-> out.dvs[k].timeStamp]
    /\ IF args.no_imu /\ args.no_frame
       THEN /\ all_timestamps' = dvs_timestamps'
            /\ all_addr' = dvs_addr'
            /\ pc' = "normalize"
            /\ UNCHANGED <<imu_addr, imu_timestamps, fr_timestamp, ldvs, limu,
                           nfr, fr_len, tot_len_jaer_events, defined, height>>
       ELSE /\ imu_addr' \in SeqChoices(
                  [j \in 1..imu6_numEvents |->
                      encode_imu(Channel(out.imu6[((j - 1) \div 7) + 1],
                                         (j - 1) % 7),
                                 (j - 1) % 7)])
            /\ imu_timestamps' = [j \in 1..imu6_numEvents |->
                                    out.imu6[((j - 1) \div 7) + 1].timeStamp]
            /\ fr_timestamp' = out.frame.timeStamp
            /\ ldvs' = Len(dvs_timestamps')
            /\ limu' = Len(imu_timestamps')
            /\ nfr' = Len(fr_timestamp')
            /\ LET hw == IF nfr' > 0 THEN out.frame.size ELSE <<0, 0>>
               IN  /\ height' = hw[2]
                   /\ fr_len' = hw[2] * hw[1]
            /\ tot_len_jaer_events' = ldvs' + limu' + (nfr' * (fr_len' * 2))
            /\ all_timestamps' = Zeros(tot_len_jaer_events', TsZero)
            /\ all_addr' = Zeros(tot_len_jaer_events', NoWord)
            /\ defined' = {"ldvs", "limu", "nfr", "tot_len_jaer_events"}
            /\ pc' = "merge"
    /\ i' = 0 /\ id' = 0 /\ ii' = 0 /\ ifr' = 0
    /\ UNCHANGED <<enc, mainVars, args, out, writable, exc, log, file>>

\* a plausible slip: "and" where the source has "or"
loop_cond_and == id < ldvs /\ ii < limu /\ ifr < nfr

\* the condition of the while loop
loop_cond == id < ldvs \/ ii < limu \/ ifr < nfr

\* a plausible slip: the DVS event is taken without comparing timestamps
take_dvs_cond_nocmp == id < ldvs

\* a plausible slip: <= where the source compares with <
take_dvs_cond_le ==
    /\ id < ldvs
    /\ \/ (limu = 0 /\ nfr = 0)
       \/ (ii = limu /\ ifr = nfr)
       \/ (nfr = 0 /\ ii < limu
             /\ TsLe(dvs_timestamps[id + 1], imu_timestamps[ii + 1]))
       \/ (limu = 0 /\ ifr < nfr
             /\ TsLe(dvs_timestamps[id + 1], fr_timestamp[ifr + 1]))
       \/ (/\ (ii = limu \/ TsLe(dvs_timestamps[id + 1], imu_timestamps[ii + 1]))
           /\ (ifr = nfr \/ TsLe(dvs_timestamps[id + 1], fr_timestamp[ifr + 1])))

\* the condition of the "take DVS event" branch
take_dvs_cond ==
    /\ id < ldvs
    /\ \/ (limu = 0 /\ nfr = 0)
       \/ (ii = limu /\ ifr = nfr)
       \/ (nfr = 0 /\ ii < limu
             /\ TsLt(dvs_timestamps[id + 1], imu_timestamps[ii + 1]))
       \/ (limu = 0 /\ ifr < nfr
             /\ TsLt(dvs_timestamps[id + 1], fr_timestamp[ifr + 1]))
       \/ (/\ (ii = limu \/ TsLt(dvs_timestamps[id + 1], imu_timestamps[ii + 1]))
           /\ (ifr = nfr \/ TsLt(dvs_timestamps[id + 1], fr_timestamp[ifr + 1])))

\* a plausible slip: <= where the source compares with <
take_imu_cond_le ==
    /\ (limu > 0 /\ ii < limu)
    /\ (nfr = 0 \/ ifr = nfr
          \/ TsLe(imu_timestamps[ii + 1], fr_timestamp[ifr + 1]))

\* the condition of the "take IMU sample" branch
take_imu_cond ==
    /\ (limu > 0 /\ ii < limu)
    /\ (nfr = 0 \/ ifr = nfr
          \/ TsLt(imu_timestamps[ii + 1], fr_timestamp[ifr + 1]))

\* the condition of the "take frame" branch
take_frame_cond == nfr > 0 /\ ifr < nfr

\* the if / elif / elif chain of the loop body, its conditions evaluated
\* left to right as Python does
branch ==
    IF take_dvs_cond THEN "dvs"
    ELSE IF take_imu_cond THEN "imu"
    ELSE IF take_frame_cond THEN "frame"
    ELSE "none"

\* arr with arr[from .. from+Len(vals)-1] = vals, positions counted from 0
\* and clipped to the array as a numpy slice is
StoreSlice(arr, from, vals) ==
    [k \in 1..Len(arr) |->
        IF k - 1 >= from /\ k - 1 < from + Len(vals)
        THEN vals[k - from] ELSE arr[k]]

\* a plausible slip: the cursor of the IMU words is not advanced inside the
\* loop over the 7 words, so that the first word is stored 7 times
imu_group_stuck(arr, from) == [k \in 1..7 |-> arr[from + 1]]

\* the 7 words stored by the for loop of the IMU branch
imu_group(arr, from) == [k \in 1..7 |-> arr[from + k]]

\* one iteration of the merge loop, taking a DVS event
TakeDVS ==
    /\ pc = "merge" /\ loop_cond
    /\ branch = "dvs"
    /\ all_timestamps' = StoreSlice(all_timestamps, i, <<dvs_timestamps[id + 1]>>)
    /\ all_addr' = StoreSlice(all_addr, i, <<dvs_addr[id + 1]>>)
    /\ i' = i + 1
    /\ id' = id + 1
    /\ UNCHANGED <<enc, mainVars, inputVars, pc, exc, log, file, setupVars, ii, ifr>>

\* one iteration of the merge loop, taking an IMU sample (7 words)
TakeIMU ==
    /\ pc = "merge" /\ loop_cond
    /\ branch = "imu"
    /\ all_timestamps' = StoreSlice(all_timestamps, i, imu_group(imu_timestamps, ii))
    /\ all_addr' = StoreSlice(all_addr, i, imu_group(imu_addr, ii))
    /\ i' = i + 7
    /\ ii' = ii + 7
    /\ UNCHANGED <<enc, mainVars, inputVars, pc, exc, log, file, setupVars, id, ifr>>

\* a plausible slip: the signal block is stored before the reset block
frame_block_swapped(k) ==
    [j \in 1..fr_len |-> signal_word(out.frame.samples[k], width, height, j - 1)]
    \o [j \in 1..fr_len |-> reset_word(width, j - 1)]

\* the 2*fr_len address words of frame k: reset_fr, then the signal block
frame_block(k) ==
    [j \in 1..fr_len |-> reset_word(width, j - 1)]
    \o [j \in 1..fr_len |-> signal_word(out.frame.samples[k], width, height, j - 1)]

\* one iteration of the merge loop, taking a frame (2*fr_len words)
TakeFrame ==
    /\ pc = "merge" /\ loop_cond
    /\ branch = "frame"
    /\ all_timestamps' = StoreSlice(all_timestamps, i,
                                    Zeros(fr_len * 2, fr_timestamp[ifr + 1]))
    \* the block is computed once and then stored
    /\ \E blk \in {frame_block(ifr + 1)} : all_addr' = StoreSlice(all_addr, i, blk)
    /\ i' = i + fr_len + fr_len
    /\ ifr' = ifr + 1
    /\ UNCHANGED <<enc, mainVars, inputVars, pc, exc, log, file, setupVars, id, ii>>

\* the while condition is false: the loop is left
ExitLoop ==
    /\ pc = "merge" /\ ~loop_cond
    /\ pc' = "normalize"
    /\ UNCHANGED <<enc, mainVars, inputVars, exc, log, file, setupVars, all_timestamps,
                   all_addr, cursorVars>>

\* all_timestamps - all_timestamps[0], cast to int32
Normalize ==
    /\ pc = "normalize"
    /\ IF Len(all_timestamps) = 0
       THEN /\ exc' = "IndexError"
            /\ pc' = "raised"
            /\ all_timestamps' = all_timestamps
       ELSE /\ all_timestamps' =
                  [k \in 1..Len(all_timestamps) |->
                      astype_int32(TsSub(all_timestamps[k], all_timestamps[1]))]
            /\ pc' = "write"
            /\ exc' = exc
    /\ UNCHANGED <<enc, mainVars, inputVars, log, file, setupVars, all_addr, cursorVars>>

\* the interleaved big-endian words are written and the file is closed
Write ==
    /\ pc = "write"
    /\ file' = [file EXCEPT !.data =
                  [k \in 1..Len(all_addr) |->
                      <<all_addr[k], ToUint32(all_timestamps[k])>>]]
    /\ pc' = "report"
    /\ UNCHANGED <<enc, mainVars, inputVars, exc, log, setupVars, all_timestamps, all_addr,
                   cursorVars>>

\* the statistics of the log.info line use ldvs, limu, nfr and
\* tot_len_jaer_events
Report ==
    /\ pc = "report"
    /\ IF {"ldvs", "limu", "nfr", "tot_len_jaer_events"} \subseteq defined
       THEN /\ log' = Append(log, "statistics")
            /\ pc' = "done"
            /\ exc' = exc
       ELSE /\ exc' = "UnboundLocalError"
            /\ pc' = "raised"
            /\ log' = log
    /\ UNCHANGED <<enc, mainVars, inputVars, file, setupVars, all_timestamps, all_addr,
                   cursorVars>>

ExportNext ==
    \/ Open
    \/ Encode
    \/ TakeDVS
    \/ TakeIMU
    \/ TakeFrame
    \/ ExitLoop
    \/ Normalize
    \/ Write
    \/ Report

EncIdle == enc = [fn |-> "none"]
MainIdle ==
    /\ m_args = [overwrite |-> FALSE, no_imu |-> FALSE, no_frame |-> FALSE]
    /\ m_idx = 0 /\ m_pc = "idle" /\ m_exc = "none" /\ m_results = <<>>

Init == ExportInit /\ EncIdle /\ MainIdle
Next == ExportNext
Spec == Init /\ [][Next]_vars
\* the timestamps of a recording
InputTsOf(o) ==
    {o.dvs[k].timeStamp : k \in 1..Len(o.dvs)}
    \cup {o.imu6[k].timeStamp : k \in 1..Len(o.imu6)}
    \cup {o.frame.timeStamp[k] : k \in 1..Len(o.frame.timeStamp)}

\* the while loop: its test and its body
MergeLoop == TakeDVS \/ TakeIMU \/ TakeFrame \/ ExitLoop
\* export_aedat_2 is sequential code: once in the loop, the test and the
\* body run as long as they can
\* ... on the recordings whose time span fits in int32
FairInit == Init /\ (\A a, b \in InputTsOf(out) : TsLe(a, b) => TsSub(b, a)[1] < 128)
FairSpec == FairInit /\ [][Next]_vars /\ WF_vars(MergeLoop)

(***************************************************************************)
(* The encoders applied to single inputs                                   *)
(***************************************************************************)
ExportIdle ==
    /\ args = [no_imu |-> FALSE, no_frame |-> FALSE]
    /\ out = [dvs |-> <<>>, imu6 |-> <<>>,
              frame |-> [timeStamp |-> <<>>, samples |-> <<>>, size |-> <<>>,
                         numDiffImages |-> 0]]
    /\ height = SensorHeight /\ writable = TRUE
    /\ pc = "idle" /\ exc = "none" /\ log = <<>>
    /\ file = [exists |-> FALSE, old |-> FALSE, header |-> FALSE, data |-> <<>>]
    /\ dvs_addr = <<>> /\ dvs_timestamps = <<>>
    /\ imu_addr = <<>> /\ imu_timestamps = <<>> /\ fr_timestamp = <<>>
    /\ ldvs = 0 /\ limu = 0 /\ nfr = 0 /\ fr_len = 0
    /\ tot_len_jaer_events = 0 /\ defined = {}
    /\ all_timestamps = <<>> /\ all_addr = <<>>
    /\ i = 0 /\ id = 0 /\ ii = 0 /\ ifr = 0

\* DVS inputs: x up to MaxX, sensor heights up to one more than the 9-bit y
\* field holds, y up to the height itself
MaxX == 1024
MaxHeight == 2^(apsDvsImuTypeShift - yShiftBits)
Heights == {SensorHeight, MaxHeight, MaxHeight + 1}
DvsInputs(hs) ==
    UNION {{[fn |-> "dvs", stage |-> "in", x |-> x, y |-> y, polarity |-> p,
             height |-> h] :
               x \in 0..MaxX, y \in {0, h - 1, h}, p \in {0, 1}}
           \cup
           {[fn |-> "dvs", stage |-> "in", x |-> x, y |-> y, polarity |-> p,
             height |-> h] :
               x \in {0, MaxX - 1}, y \in 0..h, p \in {0, 1}} : h \in hs}

\* the full scale the converter declares in its warning
AccelFullScaleG == 8
GyroFullScaleDps == 2000
\* IMU inputs in 1/ImuDen units: quarters of a g up to 8 g, steps of 25 deg/s
\* up to 2000 deg/s, steps of 5 deg C from -40 to 85, each with its two
\* neighbours; code 7 is not a channel
ImuValues(code) ==
    CASE code \in {0, 1, 2} ->
            {k * (ImuDen \div 4) + d :
                k \in (-4 * AccelFullScaleG)..(4 * AccelFullScaleG), d \in {-1, 0, 1}}
      [] code \in {4, 5, 6} ->
            {k * 25 * ImuDen + d :
                k \in (-(GyroFullScaleDps \div 25))..(GyroFullScaleDps \div 25),
                d \in {-1, 0, 1}}
      [] OTHER -> {k * 5 * ImuDen + d : k \in (-8)..17, d \in {-1, 0, 1}}
ImuInputs(codes) ==
    UNION {{[fn |-> "imu", stage |-> "in", m |-> m, code |-> c] :
               m \in ImuValues(c)} : c \in codes}

\* frame inputs: a 2 x 2 frame, the frame size of the recordings and the
\* sensor's; every pixel of the small frames, the top and bottom rows of the
\* sensor's; the images of the first three frames
EncFrameSizes == {<<2, 2>>, FrameSize, <<SensorWidth, SensorHeight>>}
FramePixels(sz) ==
    IF sz[1] * sz[2] <= 16 THEN 0..(sz[1] * sz[2] - 1)
    ELSE 0..(sz[1] - 1) \cup (sz[1] * (sz[2] - 1))..(sz[1] * sz[2] - 1)
FrameInputs(sizes) ==
    UNION {{[fn |-> "frame", stage |-> "in", size |-> sz, n |-> n, k |-> k] :
               n \in 1..3, k \in FramePixels(sz)} : sz \in sizes}

EncInit ==
    /\ enc \in DvsInputs(Heights) \cup ImuInputs(0..7) \cup FrameInputs(EncFrameSizes)
    /\ ExportIdle

\* dvs_addr for one event
EncodeDvs ==
    /\ enc.fn = "dvs" /\ enc.stage = "in"
    /\ enc' = [fn |-> "dvs", stage |-> "out", x |-> enc.x, y |-> enc.y,
               polarity |-> enc.polarity, height |-> enc.height,
               addr |-> dvs_addr_of(enc.x, enc.y, enc.polarity, enc.height)]
    /\ UNCHANGED <<exportVars, mainVars>>

\* encode_imu for one value of a valid channel code
EncodeImu ==
    /\ enc.fn = "imu" /\ enc.stage = "in"
    /\ enc.code \in 0..6
    /\ \E w \in encode_imu(enc.m, enc.code) :
          enc' = [fn |-> "imu", stage |-> "out", m |-> enc.m, code |-> enc.code,
                  addr |-> w]
    /\ UNCHANGED <<exportVars, mainVars>>

\* encode_imu for a code outside 0..6: ValueError
EncodeImuInvalid ==
    /\ enc.fn = "imu" /\ enc.stage = "in"
    /\ enc.code \notin 0..6
    /\ enc' = [fn |-> "imu", stage |-> "raised", m |-> enc.m, code |-> enc.code,
               exc |-> "ValueError"]
    /\ UNCHANGED <<exportVars, mainVars>>

\* the k-th word of reset_fr and of the signal block for one frame
EncodeFrame ==
    /\ enc.fn = "frame" /\ enc.stage = "in"
    /\ enc' = [fn |-> "frame", stage |-> "out", size |-> enc.size, n |-> enc.n,
               k |-> enc.k,
               reset |-> reset_word(enc.size[1], enc.k),
               signal |-> signal_word(FrameImage(enc.n, enc.size),
                                      enc.size[1], enc.size[2], enc.k)]
    /\ UNCHANGED <<exportVars, mainVars>>

EncNext == EncodeDvs \/ EncodeImu \/ EncodeImuInvalid \/ EncodeFrame
InitEnc == EncInit /\ MainIdle
SpecEnc == InitEnc /\ [][EncNext]_vars

(***************************************************************************)
(* main: the loop over filelist, one output file per input file            *)
(***************************************************************************)
MaxFiles == 2

\* what the loop finds for one input file: the input path, the state of the
\* output path, the container and the streams it holds
FileInputs ==
    {[exists |-> ex, aedat2 |-> a2, outExists |-> oe, outWritable |-> ow,
      version |-> v, packets |-> pk[1], ndvs |-> pk[2], nimu |-> ni, nfr |-> nf] :
        ex \in BOOLEAN, a2 \in BOOLEAN, oe \in BOOLEAN, ow \in BOOLEAN,
        v \in {3, 4}, pk \in {<<0, 0>>, <<1, 0>>, <<1, 1>>},
        ni \in 0..1, nf \in 0..MinFrames}

\* the records export_aedat_2 is given: IMU samples and frames are read only
\* without the skip flags
ImuRead(a, d) == IF a.no_imu THEN 0 ELSE d.nimu
FramesRead(a, d) == IF a.no_frame THEN 0 ELSE d.nfr
IsEmptyRecording(a, d) == d.ndvs = 0 /\ ImuRead(a, d) = 0 /\ FramesRead(a, d) = 0

\* the content of the output path before the loop reaches the file
DiskBefore(d) == IF d.outExists THEN "old" ELSE "absent"
\* ... and after the overwrite probe, which opens an existing file with 'wb'
DiskProbed(d) == IF d.outExists THEN "truncated" ELSE "absent"

\* export_aedat_2 for the file: how the call ends and what it leaves on disk
export_result(a, d) ==
    IF ~d.outWritable
    THEN [path |-> "returned", kind |-> "unwritable", exc |-> "none",
          logged |-> TRUE, disk |-> DiskProbed(d)]
    ELSE LET words == IF a.no_imu /\ a.no_frame THEN d.ndvs
                      ELSE d.ndvs + 7 * ImuRead(a, d)
                             + FramesRead(a, d) * (2 * FrameSize[1] * FrameSize[2])
         IN  IF words = 0
             THEN [path |-> "raised", kind |-> "normalize", exc |-> "IndexError",
                   logged |-> FALSE, disk |-> "header"]
             ELSE IF a.no_imu /\ a.no_frame
             THEN [path |-> "raised", kind |-> "report",
                   exc |-> "UnboundLocalError", logged |-> FALSE,
                   disk |-> "complete"]
             ELSE [path |-> "returned", kind |-> "ok", exc |-> "none",
                   logged |-> TRUE, disk |-> "complete"]

\* one pass of the loop body for the file d under the flags a
main_file(a, d) ==
    IF ~d.exists
    THEN [path |-> "continue", kind |-> "missing", exc |-> "none",
          logged |-> TRUE, disk |-> DiskBefore(d)]
    ELSE IF d.aedat2
    THEN [path |-> "continue", kind |-> "aedat2", exc |-> "none",
          logged |-> TRUE, disk |-> DiskBefore(d)]
    ELSE IF ~a.overwrite /\ d.outExists
    THEN [path |-> "continue", kind |-> "exists", exc |-> "none",
          logged |-> TRUE, disk |-> DiskBefore(d)]
    ELSE IF d.outExists /\ ~d.outWritable
    THEN [path |-> "continue", kind |-> "unwritable", exc |-> "none",
          logged |-> TRUE, disk |-> DiskBefore(d)]
    ELSE IF d.version # 4
    THEN [path |-> "continue", kind |-> "version", exc |-> "none",
          logged |-> TRUE, disk |-> DiskProbed(d)]
    ELSE IF d.packets = 0
    THEN [path |-> "raised", kind |-> "events", exc |-> "ValueError",
          logged |-> FALSE, disk |-> DiskProbed(d)]
    ELSE IF ~a.no_frame /\ d.nfr < MinFrames
    THEN [path |-> "raised", kind |-> "frames", exc |-> "ValueError",
          logged |-> FALSE, disk |-> DiskProbed(d)]
    ELSE export_result(a, d)

MainInit ==
    /\ m_args \in [overwrite : BOOLEAN, no_imu : BOOLEAN, no_frame : BOOLEAN]
    /\ m_idx = 0 /\ m_pc = "loop" /\ m_exc = "none" /\ m_results = <<>>

Result(a, d) ==
    LET r == main_file(a, d)
    IN  [kind |-> r.kind, path |-> r.path, logged |-> r.logged, disk |-> r.disk,
         empty |-> IsEmptyRecording(a, d), outputChosen |-> d.exists /\ ~d.aedat2]

\* the loop body ends in a continue: the file is skipped
FileSkipped ==
    /\ m_pc = "loop" /\ m_idx < MaxFiles
    /\ \E d \in FileInputs :
          /\ main_file(m_args, d).path = "continue"
          /\ m_results' = Append(m_results, Result(m_args, d))
    /\ m_idx' = m_idx + 1
    /\ UNCHANGED <<m_args, m_pc, m_exc, exportVars, enc>>

\* the loop body runs to its end: export_aedat_2 returned
FileExported ==
    /\ m_pc = "loop" /\ m_idx < MaxFiles
    /\ \E d \in FileInputs :
          /\ main_file(m_args, d).path = "returned"
          /\ m_results' = Append(m_results, Result(m_args, d))
    /\ m_idx' = m_idx + 1
    /\ UNCHANGED <<m_args, m_pc, m_exc, exportVars, enc>>

\* an exception leaves the loop body: nothing in main catches it
FileRaises ==
    /\ m_pc = "loop" /\ m_idx < MaxFiles
    /\ \E d \in FileInputs :
          /\ main_file(m_args, d).path = "raised"
          /\ m_results' = Append(m_results, Result(m_args, d))
          /\ m_exc' = main_file(m_args, d).exc
    /\ m_idx' = m_idx + 1
    /\ m_pc' = "raised"
    /\ UNCHANGED <<m_args, exportVars, enc>>

\* filelist is exhausted: log.debug('done')
MainDone ==
    /\ m_pc = "loop" /\ m_idx = MaxFiles
    /\ m_pc' = "done"
    /\ UNCHANGED <<m_args, m_idx, m_exc, m_results, exportVars, enc>>

MainNext == FileSkipped \/ FileExported \/ FileRaises \/ MainDone
InitMain == MainInit /\ ExportIdle /\ EncIdle
SpecMain == InitMain /\ [][MainNext]_vars

(***************************************************************************)
(* Reading the output back                                                 *)
(***************************************************************************)
\* bits 10..11 hold the subtype of a word whose bit 31 is set
SubtypeField == apsSubTypeShift..(apsSubTypeShift + 1)
ImuSubtypeBits == Shl(Bits(imuSampleSubtype), apsSubTypeShift)
ApsSubtypeBits ==
    {Shl(Bits(t), apsSubTypeShift) : t \in {apsResetReadSubtype, apsSignalReadSubtype}}

IsDvsWord(w) == apsDvsImuTypeShift \notin w
IsImuWord(w) ==
    /\ apsDvsImuTypeShift \in w
    /\ (w \cap SubtypeField) = ImuSubtypeBits
IsApsWord(w) ==
    /\ apsDvsImuTypeShift \in w
    /\ (w \cap SubtypeField) \in ApsSubtypeBits
IsGroupWord(w) == IsImuWord(w) \/ IsApsWord(w)
ImuCode(w) == Field(w, imuTypeShift, imuTypeShift + 2)
ApsSubtype(w) == Field(w, apsSubTypeShift, apsSubTypeShift + 1)
ApsAdc(w) == Field(w, apsAdcShift, apsAdcShift + 9)

RECURSIVE ImuPositionsUpTo(_), ApsPositionsUpTo(_)
\* the positions p <= n of all_addr that hold an IMU word, in increasing order
ImuPositionsUpTo(n) ==
    IF n = 0 THEN <<>>
    ELSE IF IsImuWord(all_addr[n]) THEN Append(ImuPositionsUpTo(n - 1), n)
         ELSE ImuPositionsUpTo(n - 1)
\* the positions p <= n of all_addr that hold a frame word, in increasing order
ApsPositionsUpTo(n) ==
    IF n = 0 THEN <<>>
    ELSE IF IsApsWord(all_addr[n]) THEN Append(ApsPositionsUpTo(n - 1), n)
         ELSE ApsPositionsUpTo(n - 1)
ImuPositions == ImuPositionsUpTo(Len(all_addr))
ApsPositions == ApsPositionsUpTo(Len(all_addr))

\* the merge loop has just ended: all_addr and all_timestamps hold the
\* merged words, timestamps not yet normalized
Merged == pc = "normalize" /\ "ldvs" \in defined

\* the timestamps of the file as the reader sees them (signed 32 bit)
WrittenTs(k) == Int32Of(file.data[k][2])

InputTs ==
    {out.dvs[k].timeStamp : k \in 1..Len(out.dvs)}
    \cup {out.imu6[k].timeStamp : k \in 1..Len(out.imu6)}
    \cup {out.frame.timeStamp[k] : k \in 1..Len(out.frame.timeStamp)}
\* the time span of the recording fits in a signed 32-bit integer
SpanFits == \A a, b \in InputTs : TsLe(a, b) => TsSub(b, a)[1] < 128
EmptyRecording == InputTs = {}

(***************************************************************************)
(* Claims                                                                  *)
(***************************************************************************)
\* C1: for a non-empty recording whose streams are each in timestamp order
\* and whose time span fits in int32, the timestamps written to the file are
\* non-decreasing and the first of them is 0
C1_WrittenTimestampsMonotonicFromZero ==
    (Len(file.data) > 0 /\ SpanFits) =>
        /\ WrittenTs(1) = 0
        /\ \A k \in 1..(Len(file.data) - 1) : WrittenTs(k) <= WrittenTs(k + 1)

\* C1 witness: a written file that holds DVS, IMU and frame words and ends
\* later than it starts
C1_Witness ==
    /\ Len(file.data) > 0 /\ SpanFits
    /\ WrittenTs(Len(file.data)) > 0
    /\ \E a, b, c \in 1..Len(file.data) :
          /\ IsDvsWord(file.data[a][1])
          /\ IsImuWord(file.data[b][1])
          /\ IsApsWord(file.data[c][1])

\* C2 as stated: on equal timestamps the DVS word comes before the IMU or
\* frame group, so no group word precedes a DVS word of the same timestamp
C2_DvsBeforeGroupOnTie ==
    Merged =>
        \A q \in 1..Len(all_addr) : \A p \in 1..(q - 1) :
            (all_timestamps[p] = all_timestamps[q]) =>
                ~(IsGroupWord(all_addr[p]) /\ IsDvsWord(all_addr[q]))

\* C2 amended: on equal timestamps the IMU or frame group comes before the
\* DVS word, so no DVS word precedes a group word of the same timestamp
C2_GroupBeforeDvsOnTie ==
    Merged =>
        \A q \in 1..Len(all_addr) : \A p \in 1..(q - 1) :
            (all_timestamps[p] = all_timestamps[q]) =>
                ~(IsDvsWord(all_addr[p]) /\ IsGroupWord(all_addr[q]))

\* C2 witness: an IMU group and a frame block were each emitted before a DVS
\* word of the same timestamp
C2_Witness ==
    /\ Merged
    /\ \E p, q, r \in 1..Len(all_addr) :
          /\ p < r /\ q < r
          /\ all_timestamps[p] = all_timestamps[r]
          /\ all_timestamps[q] = all_timestamps[r]
          /\ IsImuWord(all_addr[p]) /\ IsApsWord(all_addr[q])
          /\ IsDvsWord(all_addr[r])

\* C3 as stated: on equal timestamps the IMU group comes before the frame
\* block, so no frame word precedes an IMU word of the same timestamp
C3_ImuBeforeFrameOnTie ==
    Merged =>
        \A q \in 1..Len(all_addr) : \A p \in 1..(q - 1) :
            (all_timestamps[p] = all_timestamps[q]) =>
                ~(IsApsWord(all_addr[p]) /\ IsImuWord(all_addr[q]))

\* C3 amended: on equal timestamps the frame block comes before the IMU
\* group, so no IMU word precedes a frame word of the same timestamp
C3_FrameBeforeImuOnTie ==
    Merged =>
        \A q \in 1..Len(all_addr) : \A p \in 1..(q - 1) :
            (all_timestamps[p] = all_timestamps[q]) =>
                ~(IsImuWord(all_addr[p]) /\ IsApsWord(all_addr[q]))

\* C3 witness: a frame block was emitted before an IMU group of the same
\* timestamp
C3_Witness ==
    /\ Merged
    /\ \E p, q \in 1..Len(all_addr) :
          /\ p < q /\ all_timestamps[p] = all_timestamps[q]
          /\ IsApsWord(all_addr[p]) /\ IsImuWord(all_addr[q])

\* C4: after the merge, the IMU words of the output are the samples' words in
\* order; the 7 words of each sample are at consecutive positions, carry the
\* channel codes 0..6 in this order, encode the sample's values and share
\* the sample's timestamp
C4_ImuGroupsAtomic ==
    Merged =>
        LET P == ImuPositions
        IN  /\ Len(P) = 7 * Len(out.imu6)
            /\ \A s \in 1..Len(out.imu6) : \A k \in 0..6 :
                  LET p == P[7 * (s - 1) + k + 1]
                  IN  /\ p = P[7 * (s - 1) + 1] + k
                      /\ ImuCode(all_addr[p]) = k
                      /\ all_addr[p] \in encode_imu(Channel(out.imu6[s], k), k)
                      /\ all_timestamps[p] = out.imu6[s].timeStamp

\* C4 witness: two IMU samples of one timestamp merged with frames, one of
\* them of that timestamp
C4_Witness ==
    /\ Merged
    /\ Len(out.imu6) >= 2 /\ nfr >= 2
    /\ out.imu6[1].timeStamp = out.imu6[2].timeStamp
    /\ out.frame.timeStamp[2] = out.imu6[1].timeStamp

\* C5: after the merge, the frame words of the output are the frames' blocks
\* in order; the 2*w*h words of each frame are at consecutive positions and
\* share the frame's timestamp, the first w*h being reset reads with ADC
\* value 1023 and the next w*h signal reads
C5_FrameBlocksAtomic ==
    Merged =>
        LET Q == ApsPositions
            n == Len(out.frame.timeStamp)
            wh == IF n > 0 THEN out.frame.size[1] * out.frame.size[2] ELSE 0
        IN  /\ Len(Q) = 2 * wh * n
            /\ \A f \in 1..n : \A j \in 1..(2 * wh) :
                  LET q == Q[2 * wh * (f - 1) + j]
                  IN  /\ q = Q[2 * wh * (f - 1) + 1] + (j - 1)
                      /\ all_timestamps[q] = out.frame.timeStamp[f]
                      /\ j <= wh =>
                            /\ ApsSubtype(all_addr[q]) = apsResetReadSubtype
                            /\ ApsAdc(all_addr[q]) = 1023
                      /\ j > wh => ApsSubtype(all_addr[q]) = apsSignalReadSubtype

\* C5 witness: two frames of one timestamp merged with DVS events and IMU
\* samples of that timestamp
C5_Witness ==
    /\ Merged
    /\ nfr >= 2 /\ Len(out.imu6) >= 1 /\ Len(out.dvs) >= 1
    /\ out.frame.timeStamp[1] = out.frame.timeStamp[2]
    /\ out.imu6[1].timeStamp = out.frame.timeStamp[1]
    /\ out.dvs[1].timeStamp = out.frame.timeStamp[1]

\* C6: an empty recording is reported as such before the header is written
\* and before all_timestamps[0] is read: the call ends with no bytes in the
\* output file, without an IndexError, and with the error in the log
C6_EmptyRecordingRejected ==
    (EmptyRecording /\ writable /\ pc \in {"done", "raised"}) =>
        /\ ~file.header /\ Len(file.data) = 0
        /\ exc # "IndexError"
        /\ \E k \in 1..Len(log) : log[k] = "empty recording"

\* the fields of a DVS address word
DvsX(w) == Field(w, xShiftBits, yShiftBits - 1)
DvsPolarity(w) == Field(w, polShiftBits, polShiftBits)
DvsYFlipped(w) == Field(w, yShiftBits, apsDvsImuTypeShift - 1)

\* C10: for 0 <= x < 1024, 0 <= y < height <= 512 and polarity 0 or 1 the
\* DVS address word has bit 31 clear, bits 12..21 = x, bit 11 = polarity and
\* bits 22..30 = y_flipped with y = (height - 1) - y_flipped
C10_DvsAddressRoundTrip ==
    (/\ enc.fn = "dvs" /\ enc.stage = "out"
     /\ enc.x >= 0 /\ enc.x < 1024
     /\ enc.y >= 0 /\ enc.y < enc.height /\ enc.height <= 512
     /\ enc.polarity \in {0, 1}) =>
        /\ apsDvsImuTypeShift \notin enc.addr
        /\ DvsX(enc.addr) = enc.x
        /\ DvsPolarity(enc.addr) = enc.polarity
        /\ (enc.height - 1) - DvsYFlipped(enc.addr) = enc.y

\* C10 witness: the largest x, the top row of the tallest sensor (so that the
\* y field is all ones), polarity 1
C10_Witness ==
    /\ enc.fn = "dvs" /\ enc.stage = "out"
    /\ enc.x = 1023 /\ enc.y = 0 /\ enc.height = 512 /\ enc.polarity = 1
    /\ DvsYFlipped(enc.addr) = 511

\* the address fields of a frame word
ApsX(w) == Field(w, 12, 21)
ApsY(w) == Field(w, 22, 30)

\* C11: for a frame of size w x h with pixels 0..255, the k-th word (yy = k
\* div w, xx = k mod w) of the reset block and of the signal block has bit 31
\* set, x field w-1-xx and y field yy; the reset word has subtype 0 and ADC
\* 1023, the signal word subtype 1 and ADC 1023 - p[h-1-yy][xx]; so a block
\* starts at (w-1, 0) and ends at (0, h-1), and an all-255 frame has signal
\* ADC 768
C11_FrameWordFields ==
    (enc.fn = "frame" /\ enc.stage = "out") =>
        LET w == enc.size[1]
            h == enc.size[2]
            yy == enc.k \div w
            xx == enc.k % w
            \* rows and columns of the image are counted from 1
            p == FrameImage(enc.n, enc.size)[(h - 1 - yy) + 1][xx + 1]
        IN  /\ p \in 0..255
            /\ 31 \in enc.reset /\ 31 \in enc.signal
            /\ ApsX(enc.reset) = w - 1 - xx /\ ApsY(enc.reset) = yy
            /\ ApsX(enc.signal) = w - 1 - xx /\ ApsY(enc.signal) = yy
            /\ Field(enc.reset, 10, 11) = 0 /\ Field(enc.reset, 0, 9) = 1023
            /\ Field(enc.signal, 10, 11) = 1 /\ 10 \in enc.signal
            /\ Field(enc.signal, 0, 9) = 1023 - p
            /\ enc.k = 0 => (ApsX(enc.reset) = w - 1 /\ ApsY(enc.reset) = 0)
            /\ enc.k = w * h - 1 => (ApsX(enc.signal) = 0 /\ ApsY(enc.signal) = h - 1)
            /\ (/\ enc.size = <<2, 2>>
                /\ \A r \in 1..2 : \A c \in 1..2 :
                      FrameImage(enc.n, enc.size)[r][c] = 255)
                  => Field(enc.signal, 0, 9) = 768

\* C11 witness: the last word of the blocks of a 2 x 2 frame of all-255
\* pixels, at x = 0, y = 1 with signal ADC 768
C11_Witness ==
    /\ enc.fn = "frame" /\ enc.stage = "out"
    /\ enc.size = <<2, 2>> /\ enc.n = 1 /\ enc.k = 3
    /\ ApsX(enc.signal) = 0 /\ ApsY(enc.signal) = 1
    /\ Field(enc.signal, 0, 9) = 768 /\ Field(enc.reset, 0, 9) = 1023

\* the 16-bit sample of an IMU word, read as a signed number
ImuSample16(w) ==
    LET u == Field(w, imuSampleShift, imuTypeShift - 1)
    IN  IF u >= 32768 THEN u - 65536 ELSE u

Abs(n) == IF n < 0 THEN -n ELSE n

\* the input is inside the full scale the converter declares
InDeclaredFullScale(m, code) ==
    CASE code \in {0, 1, 2} -> Abs(m) <= AccelFullScaleG * ImuDen
      [] code \in {4, 5, 6} -> Abs(m) <= GyroFullScaleDps * ImuDen
      [] OTHER -> TRUE

\* decoding q with the inverse scale and offset gives the input m (in
\* 1/ImuDen units) within one quantization step, 1 / scale constant
WithinOneStep(q, m, code) ==
    CASE code = 0 ->
            Abs((-q) * ImuDen - m * accelSensitivityScaleFactorGPerLsb) <= ImuDen
      [] code \in {1, 2} ->
            Abs(q * ImuDen - m * accelSensitivityScaleFactorGPerLsb) <= ImuDen
      [] code = 3 ->
            Abs((q + temperatureOffsetDegC) * ImuDen
                  - m * temperatureScaleFactorDegCPerLsb) <= ImuDen
      [] code \in {4, 5, 6} ->
            Abs(q * 2 * ImuDen
                  - m * gyroSensitivityScaleFactorDegPerSecPerLsb_x2) <= 2 * ImuDen

\* C9: for every channel code and every input inside the declared full scale
\* (8 g, 2000 deg/s) the scaled value fits in int16, and the 16-bit sample of
\* the address word decodes to the input within one quantization step
C9_ImuRoundTripInDeclaredFullScale ==
    (/\ enc.fn = "imu" /\ enc.stage = "out"
     /\ InDeclaredFullScale(enc.m, enc.code)) =>
        /\ imu_scaled(enc.m, enc.code) \in (-32768)..32767
        /\ WithinOneStep(ImuSample16(enc.addr), enc.m, enc.code)

\* the failures of one file that main is to confine to that file
PerFileFailures == {"missing", "aedat2", "version", "exists", "unwritable"}
IsPerFileFailure(r) == r.kind \in PerFileFailures \/ (r.empty /\ r.kind # "ok")

\* C7: every per-file failure (input missing, .aedat2 input, wrong version,
\* output exists, output unwritable, empty recording) is logged and main
\* goes on with the next file: no such failure ends main
C7_FailureConfinedToFile ==
    \A k \in 1..Len(m_results) :
        IsPerFileFailure(m_results[k]) =>
            /\ m_results[k].logged
            /\ m_results[k].path # "raised"

\* C8: when the conversion of a file fails after its output path is chosen,
\* the output path does not hold a partial file (the header without the
\* word pairs)
C8_NoPartialOutput ==
    \A k \in 1..Len(m_results) :
        (m_results[k].outputChosen /\ m_results[k].kind # "ok") =>
            m_results[k].disk # "header"

RECURSIVE DvsPositionsUpTo(_)
\* the positions p <= n of all_addr that hold a DVS word, in increasing order
DvsPositionsUpTo(n) ==
    IF n = 0 THEN <<>>
    ELSE IF IsDvsWord(all_addr[n]) THEN Append(DvsPositionsUpTo(n - 1), n)
         ELSE DvsPositionsUpTo(n - 1)

\* the words and the timestamps at the positions P of the output
WordsAt(P) == [j \in 1..Len(P) |-> all_addr[P[j]]]
TimesAt(P) == [j \in 1..Len(P) |-> all_timestamps[P[j]]]

\* the number of words of one frame in the output: 2*w*h
FrameWords ==
    IF Len(out.frame.timeStamp) > 0
    THEN 2 * out.frame.size[1] * out.frame.size[2] ELSE 0

\* the words of the first n frames and their timestamps, block after block
FrameWordsOf(n) ==
    [j \in 1..(n * FrameWords) |->
        LET f == ((j - 1) \div FrameWords) + 1
            q == (j - 1) % FrameWords
            w == out.frame.size[1]
            h == out.frame.size[2]
        IN  IF q < w * h THEN reset_word(w, q)
            ELSE signal_word(out.frame.samples[f], w, h, q - w * h)]
FrameTimesOf(n) ==
    [j \in 1..(n * FrameWords) |->
        out.frame.timeStamp[((j - 1) \div FrameWords) + 1]]

\* in the merge loop: i = id + ii + 2*w*h*ifr, no cursor is past the end of
\* its stream, and the slots from i on are still zero
MergeInvariant ==
    (pc = "merge" \/ Merged) =>
        /\ id <= ldvs /\ ii <= limu /\ ifr <= nfr
        /\ i = id + ii + FrameWords * ifr
        /\ Len(all_addr) = ldvs + limu + FrameWords * nfr
        /\ Len(all_timestamps) = Len(all_addr)
        /\ \A k \in (i + 1)..Len(all_addr) :
              all_addr[k] = NoWord /\ all_timestamps[k] = TsZero

\* at the exit of the loop the three cursors are exhausted and the output
\* is full: it holds the DVS words, the IMU words and the frames' blocks,
\* each stream in its own order
MergeExit ==
    Merged =>
        /\ id = ldvs /\ ii = limu /\ ifr = nfr
        /\ ldvs = Len(out.dvs) /\ limu = 7 * Len(out.imu6)
        /\ nfr = Len(out.frame.timeStamp)
        /\ i = ldvs + limu + FrameWords * nfr
        /\ i = Len(all_addr)
        /\ WordsAt(DvsPositionsUpTo(i)) = dvs_addr
        /\ TimesAt(DvsPositionsUpTo(i)) = dvs_timestamps
        /\ WordsAt(ImuPositionsUpTo(i)) = imu_addr
        /\ TimesAt(ImuPositionsUpTo(i)) = imu_timestamps
        /\ WordsAt(ApsPositionsUpTo(i)) = FrameWordsOf(nfr)
        /\ TimesAt(ApsPositionsUpTo(i)) = FrameTimesOf(nfr)

\* one iteration advances exactly one cursor, by 1 DVS word, 7 IMU words or
\* 1 frame, and writes the slots i .. i'-1 and no other
MergeStep ==
    (pc = "merge" /\ pc' = "merge") =>
        /\ \/ id' = id + 1 /\ ii' = ii /\ ifr' = ifr /\ i' = i + 1
           \/ id' = id /\ ii' = ii + 7 /\ ifr' = ifr /\ i' = i + 7
           \/ id' = id /\ ii' = ii /\ ifr' = ifr + 1 /\ i' = i + FrameWords
        /\ \A k \in 1..Len(all_addr) :
              (k <= i \/ k > i') =>
                  /\ all_addr'[k] = all_addr[k]
                  /\ all_timestamps'[k] = all_timestamps[k]

\* C12: the merge loop terminates; every iteration advances exactly one
\* cursor (id by 1, ii by 7 or ifr by 1); i = id + ii + 2*w*h*ifr at every
\* iteration; at exit the cursors are exhausted and i = ldvs + limu +
\* 2*w*h*nfr; every input word is in the output exactly once, no slot is
\* left unfilled or written twice, each stream keeps its order
C12_MergeTerminatesCoveringInput ==
    /\ [](MergeInvariant /\ MergeExit)
    /\ [][MergeStep]_vars
    /\ (pc = "merge") ~> (pc = "normalize")

\* C12 witness: the loop has ended after merging a DVS event, an IMU sample
\* and two frames, a frame first and the DVS event last
C12_Witness ==
    /\ Merged
    /\ id = 1 /\ ii = 7 /\ ifr = 2 /\ i = 8 + 2 * FrameWords
    /\ IsApsWord(all_addr[1]) /\ IsDvsWord(all_addr[i])

\* the (address, normalized timestamp) pairs the general merge path writes
\* for the DVS stream when there are no IMU samples and no frames: the DVS
\* words in their order
DvsOnlyPairs ==
    [k \in 1..Len(out.dvs) |->
        <<dvs_addr_of(out.dvs[k].x, out.dvs[k].y, out.dvs[k].polarity,
                      SensorHeight),
          ToUint32(astype_int32(TsSub(out.dvs[k].timeStamp,
                                      out.dvs[1].timeStamp)))>>]

\* the call with both skip toggles on a non-empty DVS stream has ended
ShortcutEnded ==
    /\ args.no_imu /\ args.no_frame
    /\ Len(out.dvs) > 0 /\ writable
    /\ pc \in {"done", "raised"}

\* the general merge path on a non-empty DVS stream with empty IMU and frame
\* streams writes these pairs and ends with the statistics report
GeneralPathWritesDvsOnlyPairs ==
    (/\ ~(args.no_imu /\ args.no_frame)
     /\ Len(out.dvs) > 0 /\ Len(out.imu6) = 0 /\ Len(out.frame.timeStamp) = 0
     /\ writable /\ pc \in {"done", "raised"}) =>
        /\ file.data = DvsOnlyPairs
        /\ pc = "done" /\ log = <<"statistics">>

\* the shortcut writes the pairs of the general path
ShortcutWritesDvsOnlyPairs == ShortcutEnded => file.data = DvsOnlyPairs

\* C13: with no_imu and no_frame set and a non-empty DVS stream, the call
\* writes the same (address, normalized timestamp) pairs as the general
\* merge path with empty IMU and frame streams and then completes normally
\* through the statistics report, every quantity of the report (ldvs, limu,
\* nfr, tot_len_jaer_events) being defined
C13_ShortcutCompletesLikeGeneralPath ==
    ShortcutEnded =>
        /\ file.data = DvsOnlyPairs
        /\ {"ldvs", "limu", "nfr", "tot_len_jaer_events"} \subseteq defined
        /\ pc = "done" /\ exc = "none"
        /\ \E k \in 1..Len(log) : log[k] = "statistics"

====
